---------------------------- MODULE Spec2Model ----------------------------
(***************************************************************************)
(* Model of hexarch-example: the author value objects (models.rs), the     *)
(* repository port (repositories.rs) and its SQLite adapter (database.rs). *)
(*                                                                         *)
(* Text is modelled as a sequence of one-character strings, so that        *)
(* trimming and pattern matching are computed character by character.      *)
(***************************************************************************)
EXTENDS Integers, Sequences, FiniteSets, TLC

VARIABLES
    author,     \* the rows of table "author": records [id, name, email]
    last,       \* the last repository call: [op, req, res]
    submitted,  \* history: id -> the name/email of the create that returned it
    live,       \* history: ids returned by a successful create, not deleted since
    deleted,    \* history: ids removed by a delete, not assigned again since
    raw,        \* the input handed to a constructor or to the error mapping
    out,        \* what the constructor or the error mapping returned
    http,       \* the last HTTP request: [handler, input, invoked, repo, response]
    calls       \* concurrent callers of the port: caller -> [pc, op, req, res]

vars == <<author, last, submitted, live, deleted, raw, out, http, calls>>

\* what the repository port does not touch
voVars == <<raw, out, http, calls>>

(***************************************************************************)
(* Bounds of the model.                                                    *)
(***************************************************************************)
MaxId == 3

MaxNameLen == 5

MaxEmailLen == 6

MaxPad == 1

(***************************************************************************)
(* Character classes.                                                      *)
(***************************************************************************)
\* char::is_whitespace, ASCII part (str::trim removes these at both ends)
WhiteSpace == {" ", "\t", "\n", "\r", "\f"}

\* [a-z]
Lower == {"a", "b", "c", "d", "e", "f", "g", "h", "i", "j", "k", "l", "m",
          "n", "o", "p", "q", "r", "s", "t", "u", "v", "w", "x", "y", "z"}

\* [a-zA-Z0-9]
AlphaNum == Lower \cup
            {"A", "B", "C", "D", "E", "F", "G", "H", "I", "J", "K", "L", "M",
             "N", "O", "P", "Q", "R", "S", "T", "U", "V", "W", "X", "Y", "Z"} \cup
            {"0", "1", "2", "3", "4", "5", "6", "7", "8", "9"}

\* the local-part class: letters, digits and the listed punctuation (the
\* grave accent, which a string of this language cannot hold, is left out)
LocalClass == AlphaNum \cup
              {"!", "#", "$", "%", "&", "'", "*", "+", "-", "/", "=", "?",
               "^", "_", "{", "|", "}", "~"}

(***************************************************************************)
(* str::trim                                                               *)
(***************************************************************************)
RECURSIVE trim_start(_)
trim_start(s) ==
    IF s # <<>> /\ Head(s) \in WhiteSpace THEN trim_start(Tail(s)) ELSE s

RECURSIVE trim_end(_)
trim_end(s) ==
    IF s # <<>> /\ s[Len(s)] \in WhiteSpace
    THEN trim_end(SubSeq(s, 1, Len(s) - 1))
    ELSE s

\* a trim that forgets the trailing side
trim_start_only(s) == trim_start(s)

trim(s) == trim_end(trim_start(s))

(***************************************************************************)
(* AuthorName                                                              *)
(***************************************************************************)
AuthorNameEmptyError == [tag |-> "Err", err |-> "AuthorNameEmptyError"]

\* a constructor that checks the trimmed text and keeps the raw one
AuthorName_new_keeps_raw(r) ==
    IF trim(r) = <<>>
    THEN AuthorNameEmptyError
    ELSE [tag |-> "Ok", val |-> [inner |-> r]]

AuthorName_new(r) ==
    LET trimmed == trim(r)
    IN  IF trimmed = <<>>
        THEN AuthorNameEmptyError
        ELSE [tag |-> "Ok", val |-> [inner |-> trimmed]]

AuthorName_new_unchecked(r) == [inner |-> r]

\* Display for AuthorName and for EmailAddress: f.write_str(&self.0)
to_string(v) == v.inner

(***************************************************************************)
(* EmailAddress::is_valid: the pattern                                     *)
(*   ^ L+ ( . L+ )? @ A+ ( - A+ )? . [a-z]{2,3} $                         *)
(* matched by sets of positions: P holds the indices of the next character *)
(* to read, for every way of matching the pattern so far.                  *)
(***************************************************************************)
\* C+ : one or more characters of class C
OneOrMore(s, P, C) ==
    {q \in 1..(Len(s) + 1) :
        \E p \in P : p < q /\ \A i \in p..(q - 1) : s[i] \in C}

\* a literal character
Literal(s, P, c) == {p + 1 : p \in {x \in P : x <= Len(s) /\ s[x] = c}}

\* an unescaped dot: any character but a line feed
AnyChar(s, P) == {p + 1 : p \in {x \in P : x <= Len(s) /\ s[x] # "\n"}}

\* C{lo,hi}
Repeat(s, P, C, lo, hi) ==
    {q \in 1..(Len(s) + 1) :
        \E p \in P : (q - p) \in lo..hi /\ \A i \in p..(q - 1) : s[i] \in C}

is_valid(s) ==
    LET p1 == OneOrMore(s, {1}, LocalClass)
        p2 == p1 \cup OneOrMore(s, AnyChar(s, p1), LocalClass)
        p3 == Literal(s, p2, "@")
        p4 == OneOrMore(s, p3, AlphaNum)
        p5 == p4 \cup OneOrMore(s, Literal(s, p4, "-"), AlphaNum)
        p6 == AnyChar(s, p5)
        p7 == Repeat(s, p6, Lower, 2, 3)
    IN  (Len(s) + 1) \in p7

EmailAddress_new(r) ==
    LET trimmed == trim(r)
    IN  IF is_valid(trimmed)
        THEN [tag |-> "Ok", val |-> [inner |-> trimmed]]
        ELSE [tag |-> "Err", err |-> "EmailAddressError", text |-> trimmed]

EmailAddress_new_unchecked(r) == [inner |-> r]

(***************************************************************************)
(* Inputs of the validating constructors.                                  *)
(***************************************************************************)
Strings(A, n) == UNION {[1..k -> A] : k \in 0..n}

Pad(n) == [i \in 1..n |-> " "]

NameAlphabet == {" ", "\t", "a", "b"}

NameInputs == Strings(NameAlphabet, MaxNameLen)

EmailAlphabet == {"a", "B", "-", ".", "@", " "}

EmailInputs ==
    {Pad(i) \o c \o Pad(j) :
        i \in 0..MaxPad, j \in 0..MaxPad, c \in Strings(EmailAlphabet, MaxEmailLen)}

NotCalled == [tag |-> "NotCalled"]


(***************************************************************************)
(* Requests of the repository port.  A request holds value objects, and a  *)
(* value object of a request comes from its validating constructor.        *)
(***************************************************************************)
NameTexts == {<<"a">>, <<" ", "b">>, <<"a", "b">>}

EmailTexts == {<<"a", "@", "a", ".", "a", "a">>,
               <<"b", "@", "a", ".", "a", "a">>}

RequestNames ==
    {AuthorName_new(t).val : t \in {x \in NameTexts : AuthorName_new(x).tag = "Ok"}}

RequestEmails ==
    {EmailAddress_new(t).val :
        t \in {x \in EmailTexts : EmailAddress_new(x).tag = "Ok"}}

\* the ids a caller may ask for: 0 is never assigned
RequestIds == 0..MaxId

None == [some |-> FALSE]

Some(v) == [some |-> TRUE, val |-> v]

CreateAuthorRequest_new(name, email) == [name |-> name, email |-> email]

FindAuthorRequest_new(id) == [id |-> id]

DeleteAuthorRequest_new(id) == [id |-> id]

\* UpdateAuthorRequest::new followed by set_name / set_email
UpdateAuthorRequest_new(id, name, email) == [id |-> id, name |-> name, email |-> email]

Author_new(id, name, email) == [id |-> id, name |-> name, email |-> email]

(***************************************************************************)
(* Results and errors.                                                     *)
(***************************************************************************)
Ok(v) == [tag |-> "Ok", val |-> v]

Err(e) == [tag |-> "Err", err |-> e]

Unit == [unit |-> "()"]

\* sqlx::Error, the variants the adapter can meet
RowNotFound == [kind |-> "RowNotFound"]

DatabaseError(code) == [kind |-> "Database", code |-> code]

\* the extended result code SQLITE_CONSTRAINT_UNIQUE
UNIQUE_CONSTRAINT_VIOLATION_CODE == "2067"

\* the result code SQLITE_ERROR, of a statement that does not parse
SqliteError == "1"

Duplicate(name) == [kind |-> "Duplicate", name |-> name]

NotFound(id) == [kind |-> "NotFound", id |-> id]

Other(cause) == [kind |-> "Other", cause |-> cause]

(***************************************************************************)
(* The table "author": id generated and unique, name unique, email unique. *)
(***************************************************************************)
Ids(rows) == {r.id : r \in rows}

\* a row other than `id` already holds `name`
NameTaken(rows, id, name) == \E r \in rows : r.id # id /\ r.name = name

\* a row other than `id` already holds `email`
EmailTaken(rows, id, email) == \E r \in rows : r.id # id /\ r.email = email

\* the ids the storage layer may give a new row
FreshIds(rows) == {i \in 1..(MaxId + 1) : i \notin Ids(rows)}

(***************************************************************************)
(* The statements of the adapter, as the engine runs them.  Each gives the *)
(* sqlx result and the table afterwards.                                   *)
(***************************************************************************)
\* an INSERT that no constraint stops
insert_returning_unconstrained(rows, name, email, id) ==
    LET row == [id |-> id, name |-> name, email |-> email]
    IN  [res |-> Ok(row), table |-> rows \cup {row}]

\* INSERT INTO author (name, email) VALUES (?, ?) RETURNING *  (fetch_one)
insert_returning(rows, name, email, id) ==
    IF NameTaken(rows, id, name) \/ EmailTaken(rows, id, email)
    THEN [res |-> Err(DatabaseError(UNIQUE_CONSTRAINT_VIOLATION_CODE)), table |-> rows]
    ELSE LET row == [id |-> id, name |-> name, email |-> email]
         IN  [res |-> Ok(row), table |-> rows \cup {row}]

\* SELECT id, name, email FROM author WHERE id = ?  (fetch_one)
select_one(rows, id) ==
    LET found == {r \in rows : r.id = id}
    IN  IF found = {}
        THEN [res |-> Err(RowNotFound), table |-> rows]
        ELSE [res |-> Ok(CHOOSE r \in found : TRUE), table |-> rows]

\* SELECT id, name, email FROM author  (fetch_all); the engine picks the order
select_all(rows, order) == [res |-> Ok(order), table |-> rows]

\* an UPDATE that writes the fields left unset as empty text
execute_update_clears_unset(rows, parts, name, email, id) ==
    LET found == {r \in rows : r.id = id}
        set(r) == [id    |-> r.id,
                   name  |-> IF name.some THEN name.val ELSE <<>>,
                   email |-> IF email.some THEN email.val ELSE <<>>]
    IN  [res   |-> Ok([rows_affected |-> Cardinality(found)]),
         table |-> (rows \ found) \cup {set(r) : r \in found}]

\* UPDATE author SET <parts> WHERE id = ?  (execute)
execute_update(rows, parts, name, email, id) ==
    IF parts = <<>>
    THEN [res |-> Err(DatabaseError(SqliteError)), table |-> rows]
    ELSE LET found == {r \in rows : r.id = id}
             set(r) == [id    |-> r.id,
                        name  |-> IF name.some THEN name.val ELSE r.name,
                        email |-> IF email.some THEN email.val ELSE r.email]
             clash == \E r \in found :
                         \/ name.some /\ NameTaken(rows, id, name.val)
                         \/ email.some /\ EmailTaken(rows, id, email.val)
         IN  IF clash
             THEN [res |-> Err(DatabaseError(UNIQUE_CONSTRAINT_VIOLATION_CODE)), table |-> rows]
             ELSE [res   |-> Ok([rows_affected |-> Cardinality(found)]),
                   table |-> (rows \ found) \cup {set(r) : r \in found}]

\* a DELETE that removes nothing
execute_delete_nothing(rows, id) ==
    [res |-> Ok([rows_affected |-> 0]), table |-> rows]

\* DELETE FROM author WHERE id = ?  (execute)
execute_delete(rows, id) ==
    LET found == {r \in rows : r.id = id}
    IN  [res |-> Ok([rows_affected |-> Cardinality(found)]), table |-> rows \ found]

(***************************************************************************)
(* DefaultAuthorRepository                                                 *)
(***************************************************************************)
\* a from_row that reads the columns in the wrong order
from_row_swapped(row) ==
    Ok(Author_new(row.id,
                  AuthorName_new_unchecked(row.email),
                  EmailAddress_new_unchecked(row.name)))

from_row(row) ==
    Ok(Author_new(row.id,
                  AuthorName_new_unchecked(row.name),
                  EmailAddress_new_unchecked(row.email)))

\* a check that recognises no error
is_unique_violation_never(err) == FALSE

\* db_err.is_unique_violation(); sqlite.rs compares the code itself
is_unique_violation(err) ==
    IF err.kind = "Database" THEN err.code = UNIQUE_CONSTRAINT_VIOLATION_CODE ELSE FALSE

\* a create that returns an author without the id of its row
create_author_id_zero(rows, req, id) ==
    LET q == insert_returning(rows, to_string(req.name), to_string(req.email), id)
    IN  [res   |-> IF q.res.tag = "Err"
                   THEN Err(Duplicate(to_string(req.name)))
                   ELSE Ok(Author_new(0, req.name, req.email)),
         table |-> q.table]

create_author(rows, req, id) ==
    LET q == insert_returning(rows, to_string(req.name), to_string(req.email), id)
    IN  [res   |-> IF q.res.tag = "Err"
                   THEN IF is_unique_violation(q.res.err)
                        THEN Err(Duplicate(to_string(req.name)))
                        ELSE Err(Other(q.res.err))
                   ELSE from_row(q.res.val),
         table |-> q.table]

\* a find that folds a missing row into the other failures
find_author_no_not_found(rows, req) ==
    LET q == select_one(rows, req.id)
    IN  [res   |-> IF q.res.tag = "Err" THEN Err(Other(q.res.err)) ELSE from_row(q.res.val),
         table |-> q.table]

find_author(rows, req) ==
    LET q == select_one(rows, req.id)
    IN  [res   |-> IF q.res.tag = "Err"
                   THEN IF q.res.err = RowNotFound
                        THEN Err(NotFound(req.id))
                        ELSE Err(Other(q.res.err))
                   ELSE from_row(q.res.val),
         table |-> q.table]

\* a find-all that reads one row only
find_all_authors_first_only(rows, order) ==
    LET q == select_all(rows, order)
    IN  [res   |-> Ok([i \in 1..(IF Len(q.res.val) = 0 THEN 0 ELSE 1) |->
                          from_row(q.res.val[i]).val]),
         table |-> q.table]

find_all_authors(rows, order) ==
    LET q == select_all(rows, order)
    IN  [res   |-> IF q.res.tag = "Err"
                   THEN Err(Other(q.res.err))
                   ELSE Ok([i \in 1..Len(q.res.val) |-> from_row(q.res.val[i]).val]),
         table |-> q.table]

\* an update that reports success whatever the statement said
update_author_swallows_error(rows, req) ==
    LET parts == (IF req.name.some THEN <<"name = ?">> ELSE <<>>)
                 \o (IF req.email.some THEN <<"email = ?">> ELSE <<>>)
        name  == IF req.name.some THEN Some(to_string(req.name.val)) ELSE None
        email == IF req.email.some THEN Some(to_string(req.email.val)) ELSE None
        q     == execute_update(rows, parts, name, email, req.id)
    IN  [res |-> Ok(Unit), table |-> q.table]

update_author(rows, req) ==
    LET parts == (IF req.name.some THEN <<"name = ?">> ELSE <<>>)
                 \o (IF req.email.some THEN <<"email = ?">> ELSE <<>>)
        name  == IF req.name.some THEN Some(to_string(req.name.val)) ELSE None
        email == IF req.email.some THEN Some(to_string(req.email.val)) ELSE None
        q     == execute_update(rows, parts, name, email, req.id)
    IN  [res   |-> IF q.res.tag = "Err"
                   THEN IF q.res.err = RowNotFound
                        THEN Err(NotFound(req.id))
                        ELSE Err(Other(q.res.err))
                   ELSE Ok(Unit),
         table |-> q.table]

delete_author(rows, req) ==
    LET q == execute_delete(rows, req.id)
    IN  [res   |-> IF q.res.tag = "Err"
                   THEN IF q.res.err = RowNotFound
                        THEN Err(NotFound(req.id))
                        ELSE Err(Other(q.res.err))
                   ELSE Ok(Unit),
         table |-> q.table]

(***************************************************************************)
(* The repository as a state machine: one action per call of the port.     *)
(* Each call runs one statement, which the engine runs atomically.         *)
(***************************************************************************)
NoCall == [op |-> "none"]

\* the orders in which the engine may return the rows
Orders(rows) ==
    {f \in [1..Cardinality(rows) -> rows] :
        \A i, j \in 1..Cardinality(rows) : f[i] = f[j] => i = j}

NoRequest == [handler |-> "none"]

\* tasks that share one repository (AppState clones the Arc)
Creators == {"c1", "c2", "c3"}

Updaters == {"u1", "u2"}

Idle == [pc |-> "idle"]

InitRepo ==
    /\ author = {}
    /\ http = NoRequest
    /\ calls = [c \in Creators \cup Updaters |-> Idle]
    /\ last = NoCall
    /\ submitted = {}
    /\ live = {}
    /\ deleted = {}

CreateAuthor ==
    \E name \in RequestNames, email \in RequestEmails, id \in FreshIds(author) :
        LET req == CreateAuthorRequest_new(name, email)
            r   == create_author(author, req, id)
        IN  /\ r.res.tag = "Ok" => id <= MaxId
            /\ author' = r.table
            /\ last' = [op |-> "create_author", req |-> req, res |-> r.res]
            /\ IF r.res.tag = "Ok"
               THEN /\ submitted' =
                          {x \in submitted : x.id # r.res.val.id}
                          \cup {[id    |-> r.res.val.id,
                                 name  |-> to_string(req.name),
                                 email |-> to_string(req.email)]}
                    /\ live' = live \cup {r.res.val.id}
                    /\ deleted' = deleted \ {r.res.val.id}
               ELSE UNCHANGED <<submitted, live, deleted>>
            /\ UNCHANGED voVars

FindAuthor ==
    \E id \in RequestIds :
        LET req == FindAuthorRequest_new(id)
            r   == find_author(author, req)
        IN  /\ author' = r.table
            /\ last' = [op |-> "find_author", req |-> req, res |-> r.res]
            /\ UNCHANGED <<submitted, live, deleted>>
            /\ UNCHANGED voVars

FindAllAuthors ==
    \E order \in Orders(author) :
        LET r == find_all_authors(author, order)
        IN  /\ author' = r.table
            /\ last' = [op |-> "find_all_authors", res |-> r.res]
            /\ UNCHANGED <<submitted, live, deleted>>
            /\ UNCHANGED voVars

UpdateAuthor ==
    \E id \in RequestIds,
       name \in {None} \cup {Some(n) : n \in RequestNames},
       email \in {None} \cup {Some(e) : e \in RequestEmails} :
        LET req == UpdateAuthorRequest_new(id, name, email)
            r   == update_author(author, req)
        IN  /\ author' = r.table
            /\ last' = [op |-> "update_author", req |-> req, res |-> r.res]
            /\ submitted' = {x \in submitted : x.id # id}
            /\ UNCHANGED <<live, deleted>>
            /\ UNCHANGED voVars

DeleteAuthor ==
    \E id \in RequestIds :
        LET req == DeleteAuthorRequest_new(id)
            r   == delete_author(author, req)
        IN  /\ author' = r.table
            /\ last' = [op |-> "delete_author", req |-> req, res |-> r.res]
            /\ submitted' = {x \in submitted : x.id # id}
            /\ live' = IF r.res.tag = "Ok" THEN live \ {id} ELSE live
            /\ deleted' = IF r.res.tag = "Ok" /\ id \in Ids(author)
                          THEN deleted \cup {id}
                          ELSE deleted
            /\ UNCHANGED voVars

Init ==
    /\ InitRepo
    /\ raw = <<>>
    /\ out = NotCalled

Next ==
    \/ CreateAuthor
    \/ FindAuthor
    \/ FindAllAuthors
    \/ UpdateAuthor
    \/ DeleteAuthor

Spec == Init /\ [][Next]_vars

(***************************************************************************)
(* AuthorName::new on every input of the bound.                            *)
(***************************************************************************)
InitName ==
    /\ InitRepo
    /\ raw \in NameInputs
    /\ out = NotCalled

NewAuthorName ==
    /\ out = NotCalled
    /\ out' = AuthorName_new(raw)
    /\ UNCHANGED <<raw, author, last, submitted, live, deleted, http, calls>>

NextName == NewAuthorName

SpecName == InitName /\ [][NextName]_vars

(***************************************************************************)
(* EmailAddress::new on every input of the bound.                          *)
(***************************************************************************)
InitEmail ==
    /\ InitRepo
    /\ raw \in EmailInputs
    /\ out = NotCalled

NewEmailAddress ==
    /\ out = NotCalled
    /\ out' = EmailAddress_new(raw)
    /\ UNCHANGED <<raw, author, last, submitted, live, deleted, http, calls>>

NextEmail == NewEmailAddress

SpecEmail == InitEmail /\ [][NextEmail]_vars

(***************************************************************************)
(* The value objects as the HTTP adapter sees them (model.rs): the same    *)
(* constructors, with an error that says why.                              *)
(***************************************************************************)
AuthorNameError_Empty == [kind |-> "Empty"]

AuthorNameError_Invalid(name) == [kind |-> "Invalid", text |-> name]

EmailAddressError_Empty == [kind |-> "Empty"]

EmailAddressError_Invalid(text) == [kind |-> "Invalid", text |-> text]

model_AuthorName_new(r) ==
    LET trimmed == trim(r)
    IN  IF trimmed = <<>>
        THEN Err(AuthorNameError_Empty)
        ELSE Ok([inner |-> trimmed])

model_EmailAddress_new(r) ==
    LET trimmed == trim(r)
    IN  IF trimmed = <<>>
        THEN Err(EmailAddressError_Empty)
        ELSE IF ~is_valid(trimmed)
             THEN Err(EmailAddressError_Invalid(trimmed))
             ELSE Ok([inner |-> trimmed])

\* Display: a message is the sequence of its pieces, fixed text and
\* interpolated values
AuthorNameError_to_string(e) ==
    IF e.kind = "Invalid"
    THEN <<"Author name ", e.text, " is invalid">>
    ELSE <<"Author name cannot be empty">>

EmailAddressError_to_string(e) ==
    IF e.kind = "Invalid"
    THEN <<"Email address name ", e.text, " is invalid">>
    ELSE <<"Email address cannot be empty">>

(***************************************************************************)
(* The HTTP adapter (http/handler.rs): responses and error mapping.        *)
(***************************************************************************)
StatusCode_as_u16(status) ==
    CASE status = "CREATED" -> 201
      [] status = "OK" -> 200
      [] status = "NO_CONTENT" -> 204
      [] status = "BAD_REQUEST" -> 400
      [] status = "NOT_FOUND" -> 404
      [] status = "CONFLICT" -> 409
      [] status = "UNPROCESSABLE_ENTITY" -> 422
      [] status = "INTERNAL_SERVER_ERROR" -> 500

\* a body that always says 200
ApiResponse_new_always_200(status, data) == [status_code |-> 200, data |-> data]

ApiResponse_new(status, data) ==
    [status_code |-> StatusCode_as_u16(status), data |-> data]

\* what goes on the wire: the status line and the JSON body
Response(status, body) == [status |-> StatusCode_as_u16(status), body |-> body]

ApiSuccess_new(status, data) == [tag |-> "Ok", status |-> status, data |-> data]

ApiSuccess_into_response(x) == Response(x.status, ApiResponse_new(x.status, x.data))

ApiError_InternalServerError(msg) == [variant |-> "InternalServerError", msg |-> msg]

ApiError_BadRequest(msg) == [variant |-> "BadRequest", msg |-> msg]

ApiError_NotFound(msg) == [variant |-> "NotFound", msg |-> msg]

ApiError_Conflict(msg) == [variant |-> "Conflict", msg |-> msg]

ApiError_UnprocessableEntity(msg) == [variant |-> "UnprocessableEntity", msg |-> msg]

ApiError_status(e) ==
    CASE e.variant = "InternalServerError" -> "INTERNAL_SERVER_ERROR"
      [] e.variant = "BadRequest" -> "BAD_REQUEST"
      [] e.variant = "NotFound" -> "NOT_FOUND"
      [] e.variant = "Conflict" -> "CONFLICT"
      [] e.variant = "UnprocessableEntity" -> "UNPROCESSABLE_ENTITY"

ApiError_to_string(e) == e.msg

ApiError_into_response(e) ==
    LET status == ApiError_status(e)
        msg    == ApiError_to_string(e)
    IN  Response(status, ApiResponse_new(status, msg))

\* the domain errors of the adapter's port (store.rs): Unknown where the
\* newer port says Other
Unknown(cause) == [kind |-> "Unknown", cause |-> cause]

ParseCreateAuthorHttpRequestError_Name(e) == [kind |-> "Name", e |-> e]

ParseCreateAuthorHttpRequestError_Email(e) == [kind |-> "Email", e |-> e]

ParseCreateAuthorHttpRequestError_to_string(err) ==
    IF err.kind = "Name"
    THEN AuthorNameError_to_string(err.e)
    ELSE EmailAddressError_to_string(err.e)

ParseIdError(id) == [id |-> id]

FindAllAuthorsError(cause) == [kind |-> "Unknown", cause |-> cause]

From_ParseCreateAuthorHttpRequestError(err) ==
    LET message == ParseCreateAuthorHttpRequestError_to_string(err)
    IN  ApiError_UnprocessableEntity(message)

\* a mapping that shows the cause to the caller
From_CreateAuthorError_leaks_cause(err) ==
    IF err.kind = "Duplicate"
    THEN ApiError_Conflict(<<"author with name \"", err.name, "\" already exists">>)
    ELSE ApiError_InternalServerError(<<err.cause>>)

From_CreateAuthorError(err) ==
    IF err.kind = "Duplicate"
    THEN ApiError_Conflict(<<"author with name \"", err.name, "\" already exists">>)
    ELSE ApiError_InternalServerError(<<"Internal server error">>)

From_FindAuthorError(err) ==
    IF err.kind = "NotFound"
    THEN ApiError_NotFound(<<"author with id \"", err.id, "\" does not exist">>)
    ELSE ApiError_InternalServerError(<<"Internal server error">>)

From_FindAllAuthorsError(err) ==
    ApiError_InternalServerError(<<"Internal server error">>)

\* a mapping that answers 500 for a missing author
From_DeleteAuthorError_all_internal(err) ==
    ApiError_InternalServerError(<<"Internal server error">>)

From_DeleteAuthorError(err) ==
    IF err.kind = "NotFound"
    THEN ApiError_NotFound(<<"author with id \"", err.id, "\" does not exist">>)
    ELSE ApiError_InternalServerError(<<"Internal server error">>)

From_ParseIdError(err) == ApiError_BadRequest(<<"Cannot parse id from \"", err.id, "\"">>)

\* the From impl that the type of the error selects
ApiError_from(x) ==
    CASE x.type = "ParseCreateAuthorHttpRequestError" ->
             From_ParseCreateAuthorHttpRequestError(x.err)
      [] x.type = "CreateAuthorError" -> From_CreateAuthorError(x.err)
      [] x.type = "FindAuthorError" -> From_FindAuthorError(x.err)
      [] x.type = "FindAllAuthorsError" -> From_FindAllAuthorsError(x.err)
      [] x.type = "DeleteAuthorError" -> From_DeleteAuthorError(x.err)
      [] x.type = "ParseIdError" -> From_ParseIdError(x.err)

(***************************************************************************)
(* The error mapping on every error value, two at a time.                  *)
(***************************************************************************)
\* what an Unknown error may carry
Causes == {"pool timed out", "database is locked"}

\* texts a path id that does not parse may be
BadIdTexts == {<<"a">>, <<"-", "1">>, <<>>}

Typed(type, errs) == {[type |-> type, err |-> e] : e \in errs}

ErrorValues ==
    Typed("ParseCreateAuthorHttpRequestError",
          {ParseCreateAuthorHttpRequestError_Name(AuthorNameError_Empty),
           ParseCreateAuthorHttpRequestError_Email(EmailAddressError_Empty)}
          \cup {ParseCreateAuthorHttpRequestError_Name(AuthorNameError_Invalid(t)) :
                   t \in NameTexts}
          \cup {ParseCreateAuthorHttpRequestError_Email(EmailAddressError_Invalid(t)) :
                   t \in NameTexts})
    \cup Typed("CreateAuthorError",
               {Duplicate(to_string(n)) : n \in RequestNames}
               \cup {Unknown(c) : c \in Causes})
    \cup Typed("FindAuthorError",
               {NotFound(i) : i \in RequestIds} \cup {Unknown(c) : c \in Causes})
    \cup Typed("FindAllAuthorsError", {FindAllAuthorsError(c) : c \in Causes})
    \cup Typed("DeleteAuthorError",
               {NotFound(i) : i \in RequestIds} \cup {Unknown(c) : c \in Causes})
    \cup Typed("ParseIdError", {ParseIdError(t) : t \in BadIdTexts})

InitApiError ==
    /\ InitRepo
    /\ raw \in ErrorValues \X ErrorValues
    /\ out = NotCalled

IntoApiError ==
    /\ out = NotCalled
    /\ out' = <<ApiError_into_response(ApiError_from(raw[1])),
                ApiError_into_response(ApiError_from(raw[2]))>>
    /\ UNCHANGED <<raw, author, last, submitted, live, deleted, http, calls>>

NextApiError == IntoApiError

SpecApiError == InitApiError /\ [][NextApiError]_vars

(***************************************************************************)
(* The adapter behind the HTTP handlers (sqlite.rs).  A statement runs, or *)
(* the pool fails before it runs.                                          *)
(***************************************************************************)
NoFault == "NoFault"

\* sqlx errors of a pool that cannot serve the statement
Faults == {NoFault, "PoolTimedOut"}

on_pool(fault, rows, q) ==
    IF fault = NoFault THEN q ELSE [res |-> Err([kind |-> fault]), table |-> rows]

is_unique_constraint_violation(err) ==
    IF err.kind = "Database" THEN UNIQUE_CONSTRAINT_VIOLATION_CODE = err.code ELSE FALSE

Sqlite_create_author(rows, req, id, fault) ==
    LET q == on_pool(fault, rows,
                     insert_returning(rows, to_string(req.name), to_string(req.email), id))
    IN  [res   |-> IF q.res.tag = "Err"
                   THEN IF is_unique_constraint_violation(q.res.err)
                        THEN Err(Duplicate(to_string(req.name)))
                        ELSE Err(Unknown(q.res.err))
                   ELSE from_row(q.res.val),
         table |-> q.table]

\* the id is bound as text, which the INTEGER column compares as a number
Sqlite_find_author(rows, req, fault) ==
    LET q == on_pool(fault, rows, select_one(rows, req.id))
    IN  [res   |-> IF q.res.tag = "Err"
                   THEN IF q.res.err = RowNotFound
                        THEN Err(NotFound(req.id))
                        ELSE Err(Unknown(q.res.err))
                   ELSE from_row(q.res.val),
         table |-> q.table]

Sqlite_find_all_authors(rows, order, fault) ==
    LET q == on_pool(fault, rows, select_all(rows, order))
    IN  [res   |-> IF q.res.tag = "Err"
                   THEN Err(FindAllAuthorsError(q.res.err))
                   ELSE Ok([i \in 1..Len(q.res.val) |-> from_row(q.res.val[i]).val]),
         table |-> q.table]

Sqlite_delete_author(rows, req, fault) ==
    LET q == on_pool(fault, rows, execute_delete(rows, req.id))
    IN  [res   |-> IF q.res.tag = "Err"
                   THEN IF q.res.err = RowNotFound
                        THEN Err(NotFound(req.id))
                        ELSE Err(Unknown(q.res.err))
                   ELSE Ok(Unit),
         table |-> q.table]

(***************************************************************************)
(* The HTTP handlers: parse the input, call the port, map the result.      *)
(***************************************************************************)
Digits == {"0", "1", "2", "3", "4", "5", "6", "7", "8", "9"}

DigitValue(c) ==
    CASE c = "0" -> 0 [] c = "1" -> 1 [] c = "2" -> 2 [] c = "3" -> 3 [] c = "4" -> 4
      [] c = "5" -> 5 [] c = "6" -> 6 [] c = "7" -> 7 [] c = "8" -> 8 [] c = "9" -> 9

RECURSIVE decimal(_)
decimal(s) ==
    IF s = <<>>
    THEN 0
    ELSE decimal(SubSeq(s, 1, Len(s) - 1)) * 10 + DigitValue(s[Len(s)])

\* str::parse::<u64>: an optional plus sign, then one or more digits (the
\* texts of the model are too short to overflow)
parse_u64(s) ==
    LET digits == IF s # <<>> /\ Head(s) = "+" THEN Tail(s) ELSE s
    IN  IF digits = <<>> \/ \E i \in 1..Len(digits) : digits[i] \notin Digits
        THEN Err("ParseIntError")
        ELSE Ok(decimal(digits))

CreateAuthorHttpRequest(name, email) == [name |-> name, email |-> email]

\* a conversion that validates nothing
TryFrom_CreateAuthorHttpRequest_unchecked(value) ==
    Ok(CreateAuthorRequest_new(AuthorName_new_unchecked(value.name),
                               EmailAddress_new_unchecked(value.email)))

TryFrom_CreateAuthorHttpRequest(value) ==
    LET name  == model_AuthorName_new(value.name)
        email == model_EmailAddress_new(value.email)
    IN  IF name.tag = "Err"
        THEN Err(ParseCreateAuthorHttpRequestError_Name(name.err))
        ELSE IF email.tag = "Err"
             THEN Err(ParseCreateAuthorHttpRequestError_Email(email.err))
             ELSE Ok(CreateAuthorRequest_new(name.val, email.val))

TryFrom_String_FindAuthorRequest(value) ==
    LET id == parse_u64(value)
    IN  IF id.tag = "Err"
        THEN Err(ParseIdError(value))
        ELSE Ok(FindAuthorRequest_new(id.val))

TryFrom_String_DeleteAuthorRequest(value) ==
    LET id == parse_u64(value)
    IN  IF id.tag = "Err"
        THEN Err(ParseIdError(value))
        ELSE Ok(DeleteAuthorRequest_new(id.val))

CreateAuthorHttpResponse_from(value) == [id |-> value.id]

FindAuthorHttpResponse_from(value) ==
    [id    |-> value.id,
     name  |-> to_string(value.name),
     email |-> to_string(value.email)]

FindAllAuthorsHttpResponse_from(values) ==
    [i \in 1..Len(values) |-> FindAuthorHttpResponse_from(values[i])]

\* a handler's Result on the wire
into_response(res) ==
    IF res.tag = "Ok"
    THEN ApiSuccess_into_response(res.val)
    ELSE ApiError_into_response(res.err)

\* a port call the handler made
Invoked(op, req) == [op |-> op, req |-> req]

\* each handler gives the port calls it made, what the port returned, its
\* own Result and the table afterwards
http_create_author(rows, body, id, fault) ==
    LET req == TryFrom_CreateAuthorHttpRequest(body)
    IN  IF req.tag = "Err"
        THEN [invoked |-> <<>>,
              repo    |-> NotCalled,
              res     |-> Err(From_ParseCreateAuthorHttpRequestError(req.err)),
              table   |-> rows]
        ELSE LET r == Sqlite_create_author(rows, req.val, id, fault)
             IN  [invoked |-> <<Invoked("create_author", req.val)>>,
                  repo    |-> r.res,
                  res     |-> IF r.res.tag = "Err"
                              THEN Err(From_CreateAuthorError(r.res.err))
                              ELSE Ok(ApiSuccess_new("CREATED",
                                         CreateAuthorHttpResponse_from(r.res.val))),
                  table   |-> r.table]

http_find_author(rows, id, fault) ==
    LET req == TryFrom_String_FindAuthorRequest(id)
    IN  IF req.tag = "Err"
        THEN [invoked |-> <<>>,
              repo    |-> NotCalled,
              res     |-> Err(From_ParseIdError(req.err)),
              table   |-> rows]
        ELSE LET r == Sqlite_find_author(rows, req.val, fault)
             IN  [invoked |-> <<Invoked("find_author", req.val)>>,
                  repo    |-> r.res,
                  res     |-> IF r.res.tag = "Err"
                              THEN Err(From_FindAuthorError(r.res.err))
                              ELSE Ok(ApiSuccess_new("OK",
                                         FindAuthorHttpResponse_from(r.res.val))),
                  table   |-> r.table]

http_find_all_authors(rows, order, fault) ==
    LET r == Sqlite_find_all_authors(rows, order, fault)
    IN  [invoked |-> <<Invoked("find_all_authors", Unit)>>,
         repo    |-> r.res,
         res     |-> IF r.res.tag = "Err"
                     THEN Err(From_FindAllAuthorsError(r.res.err))
                     ELSE Ok(ApiSuccess_new("OK",
                                FindAllAuthorsHttpResponse_from(r.res.val))),
         table   |-> r.table]

http_delete_author(rows, id, fault) ==
    LET req == TryFrom_String_DeleteAuthorRequest(id)
    IN  IF req.tag = "Err"
        THEN [invoked |-> <<>>,
              repo    |-> NotCalled,
              res     |-> Err(From_ParseIdError(req.err)),
              table   |-> rows]
        ELSE LET r == Sqlite_delete_author(rows, req.val, fault)
             IN  [invoked |-> <<Invoked("delete_author", req.val)>>,
                  repo    |-> r.res,
                  res     |-> IF r.res.tag = "Err"
                              THEN Err(From_DeleteAuthorError(r.res.err))
                              ELSE Ok(ApiSuccess_new("NO_CONTENT", Unit)),
                  table   |-> r.table]

(***************************************************************************)
(* The HTTP adapter as a state machine: one action per handler.            *)
(***************************************************************************)
\* what a client may send as a name, an email, a path id
BodyNames == {<<"a">>, <<" ", "b">>, <<>>, <<" ">>}

BodyEmails == EmailTexts \cup {<<>>, <<"a", "@", "a">>}

PathIds == {<<"1">>, <<"2">>, <<"3">>, <<"+", "1">>, <<"0", "2">>, <<"1", "2">>,
            <<>>, <<"+">>, <<"x">>, <<"1", "x">>, <<"-", "1">>, <<" ", "1">>}

Served(handler, input, h) ==
    [handler  |-> handler,
     input    |-> input,
     invoked  |-> h.invoked,
     repo     |-> h.repo,
     response |-> into_response(h.res)]

HttpCreateAuthor ==
    \E name \in BodyNames, email \in BodyEmails,
       id \in FreshIds(author), fault \in Faults :
        LET body == CreateAuthorHttpRequest(name, email)
            h    == http_create_author(author, body, id, fault)
        IN  /\ h.repo.tag = "Ok" => id <= MaxId
            /\ author' = h.table
            /\ http' = Served("create_author", body, h)
            /\ UNCHANGED <<last, submitted, live, deleted, raw, out, calls>>

HttpFindAuthor ==
    \E id \in PathIds, fault \in Faults :
        LET h == http_find_author(author, id, fault)
        IN  /\ author' = h.table
            /\ http' = Served("find_author", id, h)
            /\ UNCHANGED <<last, submitted, live, deleted, raw, out, calls>>

HttpFindAllAuthors ==
    \E order \in Orders(author), fault \in Faults :
        LET h == http_find_all_authors(author, order, fault)
        IN  /\ author' = h.table
            /\ http' = Served("find_all_authors", Unit, h)
            /\ UNCHANGED <<last, submitted, live, deleted, raw, out, calls>>

HttpDeleteAuthor ==
    \E id \in PathIds, fault \in Faults :
        LET h == http_delete_author(author, id, fault)
        IN  /\ author' = h.table
            /\ http' = Served("delete_author", id, h)
            /\ UNCHANGED <<last, submitted, live, deleted, raw, out, calls>>

NextHttp ==
    \/ HttpCreateAuthor
    \/ HttpFindAuthor
    \/ HttpFindAllAuthors
    \/ HttpDeleteAuthor

SpecHttp == Init /\ [][NextHttp]_vars

(***************************************************************************)
(* Concurrent calls of the port on one shared repository.  A call is       *)
(* issued, and later its one statement runs (the engine runs a statement   *)
(* atomically) and the call returns; calls of other tasks come in between. *)
(***************************************************************************)
Pending(op, req) == [pc |-> "pending", op |-> op, req |-> req]

\* `during`: the callers whose call was in flight when this one returned
Returned(call, res, during) ==
    [pc |-> "returned", op |-> call.op, req |-> call.req, res |-> res,
     during |-> during]

InFlight == {c \in DOMAIN calls : calls[c].pc = "pending"}

BeginCreate(c) ==
    /\ calls[c].pc = "idle"
    /\ \E name \in RequestNames, email \in RequestEmails :
           calls' = [calls EXCEPT
                       ![c] = Pending("create_author",
                                      CreateAuthorRequest_new(name, email))]
    /\ UNCHANGED <<author, last, submitted, live, deleted, raw, out, http>>

FinishCreate(c) ==
    /\ calls[c].pc = "pending"
    /\ calls[c].op = "create_author"
    /\ \E id \in FreshIds(author) :
           LET r == create_author(author, calls[c].req, id)
           IN  /\ r.res.tag = "Ok" => id <= MaxId
               /\ author' = r.table
               /\ calls' = [calls EXCEPT
                              ![c] = Returned(calls[c], r.res, InFlight \ {c})]
    /\ UNCHANGED <<last, submitted, live, deleted, raw, out, http>>

NextCreators == \E c \in Creators : BeginCreate(c) \/ FinishCreate(c)

SpecCreators == Init /\ [][NextCreators]_vars

\* the table the updaters start from: two authors, created one after the other
StartTable ==
    {[id |-> 1, name |-> <<"a">>, email |-> <<"a", "@", "a", ".", "a", "a">>],
     [id |-> 2, name |-> <<"b">>, email |-> <<"c", "@", "a", ".", "a", "a">>]}

InitUpdaters ==
    /\ author = StartTable
    /\ last = NoCall
    /\ submitted = {}
    /\ live = {}
    /\ deleted = {}
    /\ raw = <<>>
    /\ out = NotCalled
    /\ http = NoRequest
    /\ calls = [c \in Creators \cup Updaters |-> Idle]

BeginUpdate(c) ==
    /\ calls[c].pc = "idle"
    /\ \E id \in RequestIds,
          name \in {None} \cup {Some(n) : n \in RequestNames},
          email \in {None} \cup {Some(e) : e \in RequestEmails} :
           calls' = [calls EXCEPT
                       ![c] = Pending("update_author",
                                      UpdateAuthorRequest_new(id, name, email))]
    /\ UNCHANGED <<author, last, submitted, live, deleted, raw, out, http>>

FinishUpdate(c) ==
    /\ calls[c].pc = "pending"
    /\ calls[c].op = "update_author"
    /\ LET r == update_author(author, calls[c].req)
       IN  /\ author' = r.table
           /\ calls' = [calls EXCEPT
                          ![c] = Returned(calls[c], r.res, InFlight \ {c})]
    /\ UNCHANGED <<last, submitted, live, deleted, raw, out, http>>

NextUpdaters == \E c \in Updaters : BeginUpdate(c) \/ FinishUpdate(c)

SpecUpdaters == InitUpdaters /\ [][NextUpdaters]_vars

(***************************************************************************)
(* Properties.                                                             *)
(***************************************************************************)
AllWhite(s) == \A i \in 1..Len(s) : s[i] \in WhiteSpace

\* t is r with the white space around it removed
SurroundingRemoved(r, t) ==
    /\ t # <<>>
    /\ t[1] \notin WhiteSpace
    /\ t[Len(t)] \notin WhiteSpace
    /\ \E i \in 0..Len(r) :
          /\ i + Len(t) <= Len(r)
          /\ AllWhite(SubSeq(r, 1, i))
          /\ SubSeq(r, i + 1, i + Len(t)) = t
          /\ AllWhite(SubSeq(r, i + Len(t) + 1, Len(r)))

\* s ends in a dot and two or three lower-case letters
DotSuffix(s, d) ==
    /\ s[d] = "."
    /\ (Len(s) - d) \in 2..3
    /\ \A i \in (d + 1)..Len(s) : s[i] \in Lower

\* local@domain.tld: something before the "@", a label, a dot, the suffix
EmailShape(s) ==
    \E at \in 2..Len(s), d \in 1..Len(s) :
        /\ s[at] = "@"
        /\ at + 1 < d
        /\ DotSuffix(s, d)

\* the shape with the local part and the label drawn from their classes
StrictEmailShape(s) ==
    \E at \in 2..Len(s), d \in 1..Len(s) :
        /\ s[at] = "@"
        /\ at + 1 < d
        /\ DotSuffix(s, d)
        /\ \A i \in 1..(at - 1) : s[i] \in LocalClass
        /\ \A i \in (at + 1)..(d - 1) : s[i] \in AlphaNum

\* C1: delete_author on an id that is not in the store fails with
\* NotFound{id} (it does not return Ok) and leaves the store unchanged.
C1_DeleteMissingIsNotFound ==
    [][(last'.op = "delete_author" /\ last'.req.id \notin Ids(author))
          => (last'.res = Err(NotFound(last'.req.id)) /\ author' = author)]_vars

\* C2: update_author on an id that matches no row fails with NotFound{id}
\* (it does not return Ok), whatever of name and email is set, and leaves
\* the store unchanged.
C2_UpdateMissingIsNotFound ==
    [][(last'.op = "update_author" /\ last'.req.id \notin Ids(author))
          => (last'.res = Err(NotFound(last'.req.id)) /\ author' = author)]_vars

\* C3: create_author with the name of an author in the store fails with
\* Duplicate carrying the submitted name, and the stored rows are what
\* they were before the call.
C3_CreateDuplicateName ==
    [][(/\ last'.op = "create_author"
        /\ \E r \in author : r.name = to_string(last'.req.name))
          => (/\ last'.res = Err(Duplicate(to_string(last'.req.name)))
              /\ author' = author)]_vars

C3_Witness ==
    /\ last.op = "create_author"
    /\ last.res = Err(Duplicate(to_string(last.req.name)))
    /\ \E r \in author :
          r.name = to_string(last.req.name) /\ r.email # to_string(last.req.email)
    /\ deleted # {}

\* C4: a create whose name is not in the store and whose email is the
\* email of a stored author fails with the Other kind, not with Duplicate.
C4_DuplicateEmailIsOther ==
    [][(/\ last'.op = "create_author"
        /\ \A r \in author : r.name # to_string(last'.req.name)
        /\ \E r \in author : r.email = to_string(last'.req.email))
          => (last'.res.tag = "Err" /\ last'.res.err.kind = "Other")]_vars

\* C5: EmailAddress::new succeeds exactly for the inputs whose trimmed text
\* has the shape local@domain.tld, the suffix being two or three lower-case
\* letters after a dot; every other input fails.
C5_EmailShapeExactly ==
    out # NotCalled =>
        /\ StrictEmailShape(trim(raw)) => out.tag = "Ok"
        /\ out.tag = "Ok" => EmailShape(to_string(out.val))

\* C6: find_author on an id that is not in the store fails with NotFound,
\* and the id of the error is the id of the request.
C6_FindMissingIsNotFound ==
    (last.op = "find_author" /\ last.req.id \notin Ids(author))
        => last.res = Err(NotFound(last.req.id))

C6_Witness ==
    /\ last.op = "find_author"
    /\ last.req.id \in deleted
    /\ last.res = Err(NotFound(last.req.id))
    /\ author # {}

\* C7: after a successful create_author(name, email), find_author on the
\* returned id, with no update or delete of that id in between, returns
\* an author with that id, that name and that email.
C7_CreateThenFind ==
    last.op = "find_author" =>
        \A s \in submitted :
            s.id = last.req.id =>
                /\ last.res.tag = "Ok"
                /\ last.res.val.id = s.id
                /\ to_string(last.res.val.name) = s.name
                /\ to_string(last.res.val.email) = s.email

C7_Witness ==
    /\ last.op = "find_author"
    /\ last.res.tag = "Ok"
    /\ \E s \in submitted : s.id = last.req.id
    /\ Cardinality(author) = 2
    /\ deleted # {}

\* C8: find_all_authors returns one entry for each author that was created
\* and not deleted since: none missing, none twice, none from a failed
\* create.
C8_FindAllIsLive ==
    last.op = "find_all_authors" =>
        /\ last.res.tag = "Ok"
        /\ {last.res.val[i].id : i \in 1..Len(last.res.val)} = live
        /\ Len(last.res.val) = Cardinality(live)

C8_Witness ==
    /\ last.op = "find_all_authors"
    /\ last.res.tag = "Ok"
    /\ Len(last.res.val) = 2
    /\ deleted # {}

\* C9: after delete_author succeeded on an existing id, find_author on
\* that id fails with NotFound and find_all_authors does not hold the id,
\* until the storage layer assigns the id again.
C9_DeletedStaysGone ==
    /\ (last.op = "find_author" /\ last.req.id \in deleted)
          => last.res = Err(NotFound(last.req.id))
    /\ last.op = "find_all_authors"
          => \A i \in 1..Len(last.res.val) : last.res.val[i].id \notin deleted

C9_Witness ==
    /\ last.op = "find_all_authors"
    /\ Len(last.res.val) = 1
    /\ deleted # {}
    /\ submitted = {}

\* C10: AuthorName::new succeeds for every input with a character that is
\* not white space, and the name renders as the input with the white space
\* around it removed; for the empty and the all-white inputs it fails with
\* the empty-name error.
C10_AuthorNameNew ==
    out # NotCalled =>
        IF AllWhite(raw)
        THEN out = AuthorNameEmptyError
        ELSE out.tag = "Ok" /\ SurroundingRemoved(raw, to_string(out.val))

C10_Witness ==
    /\ out # NotCalled
    /\ out.tag = "Ok"
    /\ Len(raw) = Len(to_string(out.val)) + 2
    /\ raw[1] \in WhiteSpace
    /\ raw[Len(raw)] \in WhiteSpace
    /\ \E i \in 1..Len(to_string(out.val)) : to_string(out.val)[i] \in WhiteSpace

\* C11: a successful update_author changes only the fields set in the
\* request, on the row of the requested id: an unset name and an unset
\* email stay as stored, no id changes, and every other row is unchanged.
C11_UpdateFrame ==
    [][(last'.op = "update_author" /\ last'.res.tag = "Ok")
          => (/\ Ids(author') = Ids(author)
              /\ \A r \in author : r.id # last'.req.id => r \in author'
              /\ \A r \in author, t \in author' :
                    (r.id = last'.req.id /\ t.id = r.id)
                        => (/\ ~last'.req.name.some => t.name = r.name
                            /\ ~last'.req.email.some => t.email = r.email))]_vars

C11_Witness ==
    /\ last.op = "update_author"
    /\ last.res.tag = "Ok"
    /\ last.req.name.some
    /\ ~last.req.email.some
    /\ Cardinality(author) = 2
    /\ \E r \in author : r.id = last.req.id /\ r.name = <<"a", "b">>
    /\ live = Ids(author)
    /\ submitted # {}

\* the AuthorName and EmailAddress values of the last call: those of its
\* request and those of the authors it returned
ReturnedAuthors ==
    IF last.op \in {"create_author", "find_author"} /\ last.res.tag = "Ok"
    THEN {last.res.val}
    ELSE IF last.op = "find_all_authors" /\ last.res.tag = "Ok"
         THEN {last.res.val[i] : i \in 1..Len(last.res.val)}
         ELSE {}

NameObjects ==
    {a.name : a \in ReturnedAuthors}
    \cup (IF last.op = "create_author" THEN {last.req.name} ELSE {})
    \cup (IF last.op = "update_author" /\ last.req.name.some
          THEN {last.req.name.val}
          ELSE {})

EmailObjects ==
    {a.email : a \in ReturnedAuthors}
    \cup (IF last.op = "create_author" THEN {last.req.email} ELSE {})
    \cup (IF last.op = "update_author" /\ last.req.email.some
          THEN {last.req.email.val}
          ELSE {})

\* C12: every AuthorName, of a request or of an author read back from the
\* store, is not empty and has no white space around it, and every
\* EmailAddress passes the email validation, after any calls.
C12_ValueObjectInvariants ==
    /\ \A n \in NameObjects :
          /\ to_string(n) # <<>>
          /\ to_string(n)[1] \notin WhiteSpace
          /\ to_string(n)[Len(to_string(n))] \notin WhiteSpace
    /\ \A e \in EmailObjects : is_valid(to_string(e))

C12_Witness ==
    /\ last.op = "find_all_authors"
    /\ Cardinality(ReturnedAuthors) = 2
    /\ \E a \in ReturnedAuthors : to_string(a.name) = <<"b">>
    /\ submitted = {}

IsUnknown(x) ==
    \/ x.type = "FindAllAuthorsError"
    \/ /\ x.type \in {"CreateAuthorError", "FindAuthorError", "DeleteAuthorError"}
       /\ x.err.kind = "Unknown"

CauseOf(x) == x.err.cause

\* C13: every error value is mapped as tabulated: Duplicate to 409, NotFound
\* of find or delete to 404, a name or email validation failure to 422 with
\* the validation reason as message, an id that does not parse to 400 (never
\* 404), and Unknown to 500.
C13_ErrorMapping ==
    out # NotCalled =>
        LET x == raw[1]
            r == out[1]
        IN  /\ (x.type = "CreateAuthorError" /\ x.err.kind = "Duplicate")
                  => r.status = 409
            /\ (x.type \in {"FindAuthorError", "DeleteAuthorError"}
                   /\ x.err.kind = "NotFound")
                  => r.status = 404
            /\ (x.type = "ParseCreateAuthorHttpRequestError" /\ x.err.kind = "Name")
                  => r.status = 422 /\ r.body.data = AuthorNameError_to_string(x.err.e)
            /\ (x.type = "ParseCreateAuthorHttpRequestError" /\ x.err.kind = "Email")
                  => r.status = 422 /\ r.body.data = EmailAddressError_to_string(x.err.e)
            /\ x.type = "ParseIdError" => r.status = 400
            /\ IsUnknown(x) => r.status = 500
            /\ r.body.status_code = r.status

C13_Witness ==
    /\ out # NotCalled
    /\ raw[1].type = "DeleteAuthorError"
    /\ raw[1].err.kind = "NotFound"
    /\ out[1].status = 404
    /\ raw[2].type = "ParseIdError"
    /\ out[2].status = 400

\* C14: two Unknown errors with different causes, from whichever operations,
\* get the same response: status 500 and the fixed message, with no part of
\* either cause in it.
C14_UnknownIsOpaque ==
    (/\ out # NotCalled
     /\ IsUnknown(raw[1])
     /\ IsUnknown(raw[2])
     /\ CauseOf(raw[1]) # CauseOf(raw[2]))
        => /\ out[1] = out[2]
           /\ out[1].status = 500
           /\ out[1].body.status_code = 500
           /\ out[1].body.data = <<"Internal server error">>
           /\ \A i \in 1..Len(out[1].body.data) :
                  out[1].body.data[i] \notin {CauseOf(raw[1]), CauseOf(raw[2])}

C14_Witness ==
    /\ out # NotCalled
    /\ raw[1].type = "CreateAuthorError"
    /\ raw[2].type = "DeleteAuthorError"
    /\ IsUnknown(raw[1])
    /\ IsUnknown(raw[2])
    /\ CauseOf(raw[1]) # CauseOf(raw[2])
    /\ out[1] = out[2]


\* a path id that is a decimal number: digits, after a plus sign or not
Parsable(s) ==
    \E k \in 0..1 :
        /\ Len(s) > k
        /\ k = 1 => s[1] = "+"
        /\ \A i \in (k + 1)..Len(s) : s[i] \in Digits

\* a request the transport boundary must reject
Rejected(h) ==
    CASE h.handler = "create_author" ->
             AllWhite(h.input.name) \/ ~is_valid(trim(h.input.email))
      [] h.handler \in {"find_author", "delete_author"} -> ~Parsable(h.input)
      [] OTHER -> FALSE

\* C15: a request with an invalid name or email in a create body, or with a
\* path id that does not parse, is answered with an error without any call of
\* the repository port and with the store unchanged; on valid input the
\* handler calls exactly one operation of the port, its own, once.
C15_RejectedNeverReachesPort ==
    [][http'.handler # "none" =>
          /\ Rejected(http') =>
                 /\ http'.invoked = <<>>
                 /\ http'.repo.tag = "NotCalled"
                 /\ author' = author
                 /\ http'.response.status \in {400, 422}
          /\ ~Rejected(http') =>
                 /\ Len(http'.invoked) = 1
                 /\ http'.invoked[1].op = http'.handler
                 /\ http'.repo.tag # "NotCalled"]_vars

C15_Witness ==
    /\ http.handler = "create_author"
    /\ http.input.name = <<"a">>
    /\ http.input.email = <<"a", "@", "a">>
    /\ http.invoked = <<>>
    /\ http.response.status = 422
    /\ Cardinality(author) = 1

\* C17: when the port returns success the handler answers with the fixed
\* status and the port's data as they are: create 201 with the id, find 200
\* with id, name and email, find-all 200 with one entry per author in the
\* same order, delete 204 with no data; the body repeats the status.
C17_SuccessMapping ==
    (http.handler # "none" /\ http.repo.tag = "Ok") =>
        LET r == http.response
            v == http.repo.val
        IN  /\ r.body.status_code = r.status
            /\ http.handler = "create_author" =>
                   r.status = 201 /\ r.body.data = [id |-> v.id]
            /\ http.handler = "find_author" =>
                   /\ r.status = 200
                   /\ r.body.data = [id |-> v.id, name |-> v.name.inner,
                                     email |-> v.email.inner]
            /\ http.handler = "find_all_authors" =>
                   /\ r.status = 200
                   /\ Len(r.body.data) = Len(v)
                   /\ \A i \in 1..Len(v) :
                          r.body.data[i] = [id |-> v[i].id, name |-> v[i].name.inner,
                                            email |-> v[i].email.inner]
            /\ http.handler = "delete_author" =>
                   r.status = 204 /\ r.body.data = Unit

C17_Witness ==
    /\ http.handler = "find_all_authors"
    /\ http.repo.tag = "Ok"
    /\ Len(http.repo.val) = 2
    /\ http.response.status = 200
    /\ Len(http.response.body.data) = 2
    /\ http.response.body.data[1].id > http.response.body.data[2].id


\* C16: however concurrent create_author calls with one name interleave, at
\* most one of them returns an Author and every other one returns
\* Duplicate with that name; the store never holds two records of one name.
C16_OneCreatorWins ==
    /\ \A c \in Creators :
          calls[c].pc = "returned" =>
              /\ calls[c].res.tag = "Err" =>
                     /\ calls[c].res.err.kind = "Duplicate"
                     /\ calls[c].res.err.name = to_string(calls[c].req.name)
              /\ \A d \in Creators \ {c} :
                     (/\ calls[d].pc = "returned"
                      /\ calls[d].req.name = calls[c].req.name)
                         => ~(calls[c].res.tag = "Ok" /\ calls[d].res.tag = "Ok")
    /\ \A r1, r2 \in author : r1.name = r2.name => r1 = r2

C16_Witness ==
    /\ calls["c1"].pc = "returned"
    /\ calls["c2"].pc = "returned"
    /\ calls["c3"].pc = "returned"
    /\ calls["c1"].during = {"c2", "c3"}
    /\ calls["c1"].res.tag = "Ok"
    /\ calls["c2"].res.tag = "Err"
    /\ calls["c3"].res.tag = "Err"
    /\ calls["c2"].req.name = calls["c1"].req.name
    /\ calls["c3"].req.name = calls["c1"].req.name
    /\ calls["c2"].req.email # calls["c1"].req.email
    /\ Cardinality(author) = 1


\* the table after the update of caller x and then the update of caller y,
\* one after the other, from the start
InSequence(x, y) ==
    update_author(update_author(StartTable, calls[x].req).table, calls[y].req).table

NameOnly(req) == req.name.some /\ ~req.email.some

EmailOnly(req) == req.email.some /\ ~req.name.some

C18_IdsAssignedByStorage ==
    [][/\ (last'.op = "create_author" /\ last'.res.tag = "Ok")
             => /\ DOMAIN last'.req = {"name", "email"}
                /\ last'.res.val.id >= 1
                /\ last'.res.val.id \notin Ids(author)
                /\ last'.res.val.id \in Ids(author')
       /\ \A r1, r2 \in author' : r1.id = r2.id => r1 = r2]_vars

C18_Witness ==
    /\ last.op = "create_author"
    /\ last.res.tag = "Ok"
    /\ last.res.val.id = 3
    /\ Ids(author) = {2, 3}
    /\ deleted = {1}


\* the value an update asks for is held by a different author
ReservedForAnother(rows, req) ==
    \/ /\ req.name.some
       /\ \E r \in rows : r.id # req.id /\ r.name = to_string(req.name.val)
    \/ /\ req.email.some
       /\ \E r \in rows : r.id # req.id /\ r.email = to_string(req.email.val)

\* C19: an update_author that sets the name or the email of an existing
\* author to a value that a different author holds fails with Other, neither
\* NotFound nor success, and leaves every record as it was.
C19_UpdateClashIsOther ==
    [][(/\ last'.op = "update_author"
        /\ last'.req.id \in Ids(author)
        /\ ReservedForAnother(author, last'.req))
          => /\ last'.res.tag = "Err"
             /\ last'.res.err.kind = "Other"
             /\ author' = author]_vars

C19_Witness ==
    /\ last.op = "update_author"
    /\ last.req.id \in Ids(author)
    /\ ~last.req.name.some
    /\ last.req.email.some
    /\ ReservedForAnother(author, last.req)
    /\ last.res.tag = "Err"
    /\ Cardinality(author) = 2


\* C21: an update_author whose request sets neither the name nor the email
\* returns Other, neither success nor NotFound, and changes no record,
\* whether a record has the id or not.
C21_EmptyUpdateIsOther ==
    [][(/\ last'.op = "update_author"
        /\ ~last'.req.name.some
        /\ ~last'.req.email.some)
          => /\ last'.res.tag = "Err"
             /\ last'.res.err.kind = "Other"
             /\ author' = author]_vars

C21_Witness ==
    /\ last.op = "update_author"
    /\ last.req = UpdateAuthorRequest_new(2, None, None)
    /\ last.res.tag = "Err"
    /\ last.res.err.kind = "Other"
    /\ Ids(author) = {1, 2}

\* the same call on an id that no record has
C21_WitnessMissingId ==
    /\ last.op = "update_author"
    /\ last.req = UpdateAuthorRequest_new(3, None, None)
    /\ last.res.tag = "Err"
    /\ Ids(author) = {1, 2}

=============================================================================
